---- MODULE Spec2Model ----
(***************************************************************************)
(* The Home component of frontend/src/app/page.tsx as a state machine.     *)
(*                                                                         *)
(* The variables are the component's useState cells, the requests whose    *)
(* `await fetch(...)` has not resumed yet (each is a suspended call of     *)
(* handleUpload or handleSendMessage together with the values its closure  *)
(* captured), the pending load of the react-pdf Document, and the event     *)
(* that was handled last.                                                  *)
(*                                                                         *)
(* Every event handler runs to its first await (or to its end) as one      *)
(* step; the code after an await runs as one step when the response        *)
(* arrives.  User events are those the rendered page offers: a disabled or *)
(* unrendered control produces none.  The file input is hidden and its     *)
(* picker is opened only by handleUploadButtonClick, the onClick of the    *)
(* Upload button, so a file is chosen only while that button is enabled.   *)
(* The form's submit event is the one exception: it is delivered in every  *)
(* state, and handleSendMessage's own guard decides what it does.          *)
(***************************************************************************)
EXTENDS Integers, Sequences, FiniteSets, TLC

VARIABLES
    selectedFile,     \* page.tsx:23  File | null
    pdfId,            \* page.tsx:24  string | null
    uploading,        \* page.tsx:25  boolean
    error,            \* page.tsx:26  string | null
    numPages,         \* page.tsx:27  number | null
    currentPage,      \* page.tsx:28  number
    chatMessages,     \* page.tsx:35  ChatMessage[]
    chatInput,        \* page.tsx:36  string, as a sequence of characters
    isSending,        \* page.tsx:37  boolean
    docLoading,       \* the mounted <Document> has not reported its load yet
    uploadsInFlight,  \* calls of handleUpload suspended at `await fetch` (line 75)
    chatsInFlight,    \* calls of handleSendMessage suspended at `await fetch` (line 142)
    lastEvent         \* the event handled by the last step, with its input

vars == <<selectedFile, pdfId, uploading, error, numPages, currentPage,
          chatMessages, chatInput, isSending, docLoading,
          uploadsInFlight, chatsInFlight, lastEvent>>

-----------------------------------------------------------------------------
(* Bounds of the model *)

MaxDocs == 2        \* distinct identifiers the server hands out
MaxPages == 2       \* page counts a loaded document reports: 1..MaxPages
MaxMsgs == 4        \* length of the transcript

-----------------------------------------------------------------------------
(* Values *)

\* null / undefined; a present value v is Some(v)
null == {}
Some(v) == {v}
Val(o) == CHOOSE v \in o : TRUE

PdfType == "application/pdf"
FileTypes == {PdfType, "application/x-pdf", ""}
\* event.target.files?.[0]: a File with its declared type, or undefined
Selections == {null} \cup {Some([type |-> t]) : t \in FileTypes}

\* values of the chat input, as sequences of characters
InputStrings == {<<>>, <<" ">>, <<"q">>, <<" ", "q", " ">>}

PdfIds == {"pdf" \o ToString(i) : i \in 1..MaxDocs}

\* What `await fetch(...)` resumes with: a Response, or a rejection (network error)
Response(ok, status, body) ==
    [type |-> "response", ok |-> ok, status |-> status, body |-> body]
Rejection(message) == [type |-> "reject", message |-> message]

\* body is null when the payload is not JSON, so that response.json() rejects
UploadResponses ==
    {Response(TRUE, 200, Some([pdf_id |-> id])) : id \in PdfIds}
    \cup {Response(TRUE, 200, null),
          Response(FALSE, 400, Some([description |-> Some("No selected file")])),
          Response(FALSE, 500, Some([description |-> null])),
          Response(FALSE, 502, null),
          Rejection("Failed to fetch")}

ChatResponses ==
    {Response(TRUE, 200, Some([answer |-> "The answer."])),
     Response(TRUE, 200, null),
     Response(FALSE, 404, Some([description |-> Some("PDF not found")])),
     Response(FALSE, 500, Some([description |-> null])),
     Response(FALSE, 502, null),
     Rejection("Failed to fetch")}

LoadErrorMessages == {"Missing PDF"}

\* message of the SyntaxError response.json() rejects with
JsonSyntaxError == "Unexpected token < in JSON"

-----------------------------------------------------------------------------
(* Pure helpers *)

IsSpace(c) == c \in {" ", "\t", "\n"}

RECURSIVE TrimStart(_)
TrimStart(s) ==
    IF s = <<>> THEN s
    ELSE IF IsSpace(Head(s)) THEN TrimStart(Tail(s)) ELSE s

RECURSIVE TrimEnd(_)
TrimEnd(s) ==
    IF s = <<>> THEN s
    ELSE IF IsSpace(s[Len(s)]) THEN TrimEnd(SubSeq(s, 1, Len(s) - 1)) ELSE s

\* String.prototype.trim
trim(s) == TrimEnd(TrimStart(s))

\* a || b on an optional string: b when a is undefined, null or ""
OrElse(a, b) == IF a = null \/ a = Some("") THEN b ELSE Val(a)

Ev(name, arg) == lastEvent' = [name |-> name, arg |-> arg]

-----------------------------------------------------------------------------
(* Initial state: the useState initial values, nothing in flight *)

Init ==
    /\ selectedFile = null
    /\ pdfId = null
    /\ uploading = FALSE
    /\ error = null
    /\ numPages = null
    /\ currentPage = 1
    /\ chatMessages = <<>>
    /\ chatInput = <<>>
    /\ isSending = FALSE
    /\ docLoading = FALSE
    /\ uploadsInFlight = <<>>
    /\ chatsInFlight = <<>>
    /\ lastEvent = [name |-> "mount", arg |-> null]

Remove(seq, i) == SubSeq(seq, 1, i - 1) \o SubSeq(seq, i + 1, Len(seq))

-----------------------------------------------------------------------------
(* Upload *)

AcceptsFile_NoTypeCheck(file) == file /= null

\* file && file.type === "application/pdf"
AcceptsFile(file) == file /= null /\ Val(file).type = PdfType

HandleUpload_KeepsPdfId(fileToUpload) ==
    IF fileToUpload = null
    THEN /\ error' = Some("No file selected.")
         /\ UNCHANGED <<uploading, pdfId, docLoading, uploadsInFlight>>
    ELSE /\ uploading' = TRUE
         /\ error' = null
         /\ UNCHANGED <<pdfId, docLoading>>
         /\ uploadsInFlight' = Append(uploadsInFlight, [file |-> Val(fileToUpload)])

\* handleUpload up to `await fetch`.  pdfId becomes null, so the <Document>
\* (rendered only when pdfId is set, line 188) is unmounted and its load dropped.
HandleUpload(fileToUpload) ==
    IF fileToUpload = null
    THEN /\ error' = Some("No file selected.")
         /\ UNCHANGED <<uploading, pdfId, docLoading, uploadsInFlight>>
    ELSE /\ uploading' = TRUE
         /\ error' = null
         /\ pdfId' = null
         /\ docLoading' = FALSE
         /\ uploadsInFlight' = Append(uploadsInFlight, [file |-> Val(fileToUpload)])

\* onChange of the hidden file input; its picker opens from the Upload button,
\* which is disabled while uploading (lines 55-58, 225)
HandleFileChange(file) ==
    /\ ~uploading
    /\ IF AcceptsFile(file)
       THEN /\ selectedFile' = file
            /\ HandleUpload(file)
       ELSE /\ selectedFile' = null
            /\ error' = Some("Please select a valid PDF file.")
            /\ UNCHANGED <<uploading, pdfId, docLoading, uploadsInFlight>>
    /\ Ev("handleFileChange", file)
    /\ UNCHANGED <<numPages, currentPage, chatMessages, chatInput, isSending,
                   chatsInFlight>>

\* errorMessage of handleUpload's catch block
UploadErrorMessage(r) ==
    IF r.type = "reject" THEN r.message
    ELSE IF ~r.ok
    THEN LET errorData ==
                 IF r.body = null
                 THEN [description |->
                          Some("Upload failed with status: " \o ToString(r.status))]
                 ELSE Val(r.body)
         IN  OrElse(errorData.description, "Failed to upload PDF.")
    ELSE JsonSyntaxError

UploadResolved_KeepsChat(result) ==
    /\ pdfId' = Some(result.pdf_id)
    /\ selectedFile' = null
    /\ currentPage' = 1
    /\ numPages' = null
    /\ chatMessages' = chatMessages
    /\ error' = null
    /\ docLoading' = TRUE

\* handleUpload after response.json() resolved; a non-null pdfId mounts the <Document>
UploadResolved(result) ==
    /\ pdfId' = Some(result.pdf_id)
    /\ selectedFile' = null
    /\ currentPage' = 1
    /\ numPages' = null
    /\ chatMessages' = <<>>
    /\ error' = null
    /\ docLoading' = TRUE

\* handleUpload's catch block
UploadRejected(r) ==
    /\ error' = Some(UploadErrorMessage(r))
    /\ UNCHANGED <<pdfId, selectedFile, currentPage, numPages, chatMessages,
                   docLoading>>

\* the i-th suspended handleUpload resumes with r and runs to its end
UploadResponse(i, r) ==
    /\ i \in 1..Len(uploadsInFlight)
    /\ uploadsInFlight' = Remove(uploadsInFlight, i)
    /\ IF r.type = "response" /\ r.ok /\ r.body /= null
       THEN UploadResolved(Val(r.body))
       ELSE UploadRejected(r)
    /\ uploading' = FALSE
    /\ Ev("uploadResponse", r)
    /\ UNCHANGED <<chatInput, isSending, chatsInFlight>>

-----------------------------------------------------------------------------
(* PDF viewer *)

OnDocumentLoadSuccess(nextNumPages) ==
    /\ pdfId /= null
    /\ docLoading
    /\ docLoading' = FALSE
    /\ numPages' = Some(nextNumPages)
    /\ Ev("onLoadSuccess", nextNumPages)
    /\ UNCHANGED <<selectedFile, pdfId, uploading, error, currentPage,
                   chatMessages, chatInput, isSending, uploadsInFlight, chatsInFlight>>

\* the handler passed as onLoadError to <Document>
OnLoadError(message) ==
    /\ pdfId /= null
    /\ docLoading
    /\ docLoading' = FALSE
    /\ error' = Some("Failed to load PDF: " \o message)
    /\ Ev("onLoadError", message)
    /\ UNCHANGED <<selectedFile, pdfId, uploading, numPages, currentPage,
                   chatMessages, chatInput, isSending, uploadsInFlight, chatsInFlight>>

\* the function onDocumentLoadError of lines 110-115: nothing on the page refers
\* to it (the <Document> is given the inline handler above), so it is no step
OnDocumentLoadError(message) ==
    /\ pdfId /= null
    /\ docLoading
    /\ docLoading' = FALSE
    /\ error' = Some("Failed to load PDF: " \o message)
    /\ pdfId' = null
    /\ numPages' = null
    /\ Ev("onDocumentLoadError", message)
    /\ UNCHANGED <<selectedFile, uploading, currentPage, chatMessages, chatInput,
                   isSending, uploadsInFlight, chatsInFlight>>

\* the pagination buttons are rendered only when pdfId && numPages
GoToPrevPage ==
    /\ pdfId /= null /\ numPages /= null
    /\ currentPage' = IF currentPage > 1 THEN currentPage - 1 ELSE currentPage
    /\ Ev("goToPrevPage", null)
    /\ UNCHANGED <<selectedFile, pdfId, uploading, error, numPages,
                   chatMessages, chatInput, isSending, docLoading,
                   uploadsInFlight, chatsInFlight>>

GoToNextPage ==
    /\ pdfId /= null /\ numPages /= null
    /\ currentPage' = IF numPages /= null /\ currentPage < Val(numPages)
                      THEN currentPage + 1 ELSE currentPage
    /\ Ev("goToNextPage", null)
    /\ UNCHANGED <<selectedFile, pdfId, uploading, error, numPages,
                   chatMessages, chatInput, isSending, docLoading,
                   uploadsInFlight, chatsInFlight>>

-----------------------------------------------------------------------------
(* Chat *)

\* onChange of the chat input, which is disabled when !pdfId || isSending
ChatInputChange(value) ==
    /\ pdfId /= null
    /\ ~isSending
    /\ value /= chatInput
    /\ chatInput' = value
    /\ Ev("chatInputChange", value)
    /\ UNCHANGED <<selectedFile, pdfId, uploading, error, numPages, currentPage,
                   chatMessages, isSending, docLoading,
                   uploadsInFlight, chatsInFlight>>

ReturnsEarly_NoTrim(input, id, sending) ==
    input = <<>> \/ id = null \/ sending

\* !chatInput.trim() || !pdfId || isSending
ReturnsEarly(input, id, sending) ==
    trim(input) = <<>> \/ id = null \/ sending

SendMessage_NoSendingFlag ==
    LET userMessage == [sender |-> "user", text |-> chatInput]
    IN  /\ chatMessages' = Append(chatMessages, userMessage)
        /\ chatInput' = <<>>
        /\ isSending' = isSending
        /\ error' = null
        /\ chatsInFlight' = Append(chatsInFlight,
                                   [pdf_id |-> Val(pdfId), query |-> userMessage.text])

\* handleSendMessage from the guard to `await fetch` (lines 135-148)
SendMessage ==
    LET userMessage == [sender |-> "user", text |-> chatInput]
    IN  /\ chatMessages' = Append(chatMessages, userMessage)
        /\ chatInput' = <<>>
        /\ isSending' = TRUE
        /\ error' = null
        /\ chatsInFlight' = Append(chatsInFlight,
                                   [pdf_id |-> Val(pdfId), query |-> userMessage.text])

\* onSubmit of the chat form
HandleSendMessage ==
    /\ IF ReturnsEarly(chatInput, pdfId, isSending)
       THEN /\ Ev("handleSendMessage", "returned")
            /\ UNCHANGED <<chatMessages, chatInput, isSending, error, chatsInFlight>>
       ELSE /\ Len(chatMessages) + 2 <= MaxMsgs
            /\ SendMessage
            /\ Ev("handleSendMessage", "awaiting")
    /\ UNCHANGED <<selectedFile, pdfId, uploading, numPages, currentPage,
                   docLoading, uploadsInFlight>>

\* errorMessage of handleSendMessage's catch block
ChatErrorMessage(r) ==
    IF r.type = "reject" THEN r.message
    ELSE IF ~r.ok /\ r.body /= null
    THEN OrElse(Val(r.body).description,
                "HTTP error! status: " \o ToString(r.status))
    ELSE JsonSyntaxError

\* handleSendMessage after response.json() resolved
ChatResolved(result) ==
    /\ chatMessages' = Append(chatMessages, [sender |-> "ai", text |-> result.answer])
    /\ UNCHANGED <<error, pdfId, numPages, currentPage, docLoading>>

ChatRejected_ClearsDocument(r) ==
    /\ chatMessages' = Append(chatMessages,
           [sender |-> "ai",
            text |-> "Sorry, I encountered an error: " \o ChatErrorMessage(r)])
    /\ error' = Some("Chat failed: " \o ChatErrorMessage(r))
    /\ pdfId' = null
    /\ numPages' = null
    /\ docLoading' = FALSE
    /\ UNCHANGED currentPage

\* handleSendMessage's catch block
ChatRejected(r) ==
    /\ chatMessages' = Append(chatMessages,
           [sender |-> "ai",
            text |-> "Sorry, I encountered an error: " \o ChatErrorMessage(r)])
    /\ error' = Some("Chat failed: " \o ChatErrorMessage(r))
    /\ UNCHANGED <<pdfId, numPages, currentPage, docLoading>>

ChatSettled_OnlyOnSuccess(r) ==
    isSending' = IF r.type = "response" /\ r.ok /\ r.body /= null
                 THEN FALSE ELSE isSending

\* handleSendMessage's finally block
ChatSettled(r) == isSending' = FALSE

\* the i-th suspended handleSendMessage resumes with r and runs to its end
ChatResponse(i, r) ==
    /\ i \in 1..Len(chatsInFlight)
    /\ chatsInFlight' = Remove(chatsInFlight, i)
    /\ IF r.type = "response" /\ r.ok /\ r.body /= null
       THEN ChatResolved(Val(r.body))
       ELSE ChatRejected(r)
    /\ ChatSettled(r)
    /\ Ev("chatResponse", r)
    /\ UNCHANGED <<selectedFile, uploading, chatInput, uploadsInFlight>>

-----------------------------------------------------------------------------
(* Specifications *)

UploadCompletes == \E i \in 1..Len(uploadsInFlight), r \in UploadResponses : UploadResponse(i, r)
ChatCompletes == \E i \in 1..Len(chatsInFlight), r \in ChatResponses : ChatResponse(i, r)

Next ==
    \/ \E file \in Selections : HandleFileChange(file)
    \/ UploadCompletes
    \/ \E n \in 1..MaxPages : OnDocumentLoadSuccess(n)
    \/ \E m \in LoadErrorMessages : OnLoadError(m)
    \/ GoToPrevPage
    \/ GoToNextPage
    \/ \E value \in InputStrings : ChatInputChange(value)
    \/ HandleSendMessage
    \/ ChatCompletes

Spec == Init /\ [][Next]_vars

\* every request receives its response or fails: each fetch settles
LiveSpec == Spec /\ WF_vars(ChatCompletes) /\ WF_vars(UploadCompletes)

-----------------------------------------------------------------------------
(* Vocabulary of the properties *)

\* s holds nothing but whitespace
Blank(s) == \A k \in 1..Len(s) : s[k] \in {" ", "\t", "\n"}

\* the request did not complete successfully: network error, non-OK status,
\* or a payload that is not JSON
Failed(r) == r.type = "reject" \/ ~r.ok \/ r.body = null

StepOf(name) == lastEvent'.name = name

Newest(seq) == seq[Len(seq)]

-----------------------------------------------------------------------------
(* C1 *)

C1_Step ==
    /\ (StepOf("handleFileChange")
        /\ (lastEvent'.arg = null \/ Val(lastEvent'.arg).type /= "application/pdf"))
       => /\ uploadsInFlight' = uploadsInFlight
          /\ selectedFile' = null
          /\ error' /= null
    /\ Len(uploadsInFlight') > Len(uploadsInFlight)
       => /\ StepOf("handleFileChange")
          /\ uploadsInFlight' = Append(uploadsInFlight, Newest(uploadsInFlight'))
          /\ Newest(uploadsInFlight').file.type = "application/pdf"
          /\ lastEvent'.arg = Some(Newest(uploadsInFlight').file)

\* C1: a POST /upload is started only by handleFileChange and only for a selected
\* file whose declared type is exactly application/pdf; for any other selection, or
\* none, handleFileChange starts no request, sets selectedFile to null and sets
\* error to a non-null message.
C1_UploadOnlyForPdf == [][C1_Step]_vars

\* a file of type application/x-pdf was selected and refused
C1_Witness ==
    /\ lastEvent.name = "handleFileChange"
    /\ lastEvent.arg = Some([type |-> "application/x-pdf"])
    /\ selectedFile = null
    /\ error /= null
    /\ uploadsInFlight = <<>>

-----------------------------------------------------------------------------
(* C2 *)

C2_Step ==
    /\ Len(chatsInFlight') > Len(chatsInFlight)
       => LET req == Newest(chatsInFlight')
          IN  /\ StepOf("handleSendMessage")
              /\ chatsInFlight' = Append(chatsInFlight, req)
              /\ pdfId /= null
              /\ pdfId' = pdfId
              /\ Some(req.pdf_id) = pdfId
              /\ req.query = chatInput
              /\ ~Blank(req.query)
    /\ (StepOf("handleSendMessage") /\ (Blank(chatInput) \/ pdfId = null))
       => /\ chatsInFlight' = chatsInFlight
          /\ chatMessages' = chatMessages
          /\ chatInput' = chatInput
          /\ isSending' = isSending

\* C2: every POST /chat is sent by handleSendMessage and carries the current,
\* non-null pdfId and a question that is non-empty after trimming; a submit with
\* an empty or whitespace-only chatInput, or with pdfId null, sends nothing and
\* leaves chatMessages, chatInput and isSending unchanged.
C2_ChatRequestWellFormed == [][C2_Step]_vars

\* a whitespace-only question was submitted against a loaded document and ignored
C2_Witness ==
    /\ lastEvent = [name |-> "handleSendMessage", arg |-> "returned"]
    /\ pdfId /= null
    /\ ~isSending
    /\ chatInput /= <<>>
    /\ Blank(chatInput)

-----------------------------------------------------------------------------
(* C3 *)

C3_Step ==
    /\ (StepOf("chatResponse") /\ Failed(lastEvent'.arg))
       => /\ pdfId' = pdfId
          /\ numPages' = numPages
          /\ currentPage' = currentPage
          /\ Len(chatMessages') = Len(chatMessages) + 1
          /\ SubSeq(chatMessages', 1, Len(chatMessages)) = chatMessages
          /\ Newest(chatMessages').sender = "ai"
    /\ StepOf("handleSendMessage")
       => /\ pdfId' = pdfId
          /\ numPages' = numPages
          /\ currentPage' = currentPage

-----------------------------------------------------------------------------
(* C4 *)

C4_Step ==
    (StepOf("chatResponse") /\ Failed(lastEvent'.arg))
    => /\ ~isSending'
       /\ pdfId' = pdfId
       /\ pdfId /= null
          => \A value \in InputStrings :
                ~Blank(value) => ~ReturnsEarly(value, pdfId', isSending')

-----------------------------------------------------------------------------
(* C5 *)

C5_Step ==
    /\ StepOf("uploadResponse")
       => LET r == lastEvent'.arg
          IN  /\ ~uploading'
              /\ IF Failed(r)
                 THEN /\ pdfId' = null
                      /\ error' /= null
                      /\ r.type = "reject" => error' = Some(r.message)
                      /\ (r.type = "response" /\ r.body /= null
                          /\ Val(r.body).description \notin {null, Some("")})
                         => error' = Val(r.body).description
                 ELSE /\ pdfId' = Some(Val(r.body).pdf_id)
                      /\ error' = null
    /\ uploadsInFlight' /= <<>> => pdfId' = null

\* C5: when an upload request completes successfully pdfId becomes the identifier
\* the server returned and error is null; when it fails pdfId is null and error
\* holds the failure description; uploading is false afterwards in both cases, and
\* pdfId is null for as long as an upload is in flight.
C5_UploadOutcome == [][C5_Step]_vars

\* an upload that replaced a loaded document failed with the server's description
C5_Witness ==
    /\ lastEvent.name = "uploadResponse"
    /\ Failed(lastEvent.arg)
    /\ error = Some("No selected file")
    /\ pdfId = null
    /\ ~uploading
    /\ numPages /= null

-----------------------------------------------------------------------------
(* C6 *)

C6_Step ==
    /\ isSending => Len(chatsInFlight') <= Len(chatsInFlight)
    /\ Len(chatsInFlight') <= 1

\* C6: at most one POST /chat is in flight at any time, and no step taken while
\* isSending is true starts one.
C6_OneChatInFlight == [][C6_Step]_vars

\* a submit event arrived while a chat request was in flight and was ignored
C6_Witness ==
    /\ lastEvent = [name |-> "handleSendMessage", arg |-> "returned"]
    /\ isSending
    /\ Len(chatsInFlight) = 1

-----------------------------------------------------------------------------
(* C7 *)

C7_Step ==
    StepOf("onLoadError")
    => /\ pdfId' = null
       /\ numPages' = null
       /\ error' \in {Some("Failed to load PDF: " \o m) : m \in LoadErrorMessages}

\* C7: when loading the PDF fails, pdfId and numPages are cleared to null and error
\* is set to a 'Failed to load PDF' message.
C7_LoadErrorClearsDocument == [][C7_Step]_vars

-----------------------------------------------------------------------------
(* C8 *)

C8_Step ==
    StepOf("uploadResponse")
    => IF Failed(lastEvent'.arg)
       THEN /\ currentPage' = currentPage
            /\ numPages' = numPages
            /\ chatMessages' = chatMessages
       ELSE /\ currentPage' = 1
            /\ numPages' = null
            /\ chatMessages' = <<>>

\* C8: the step that completes a successful upload leaves currentPage = 1,
\* numPages = null and chatMessages empty, whatever they were; the step that
\* completes a failed upload leaves the three unchanged.
C8_UploadResetsDocumentState == [][C8_Step]_vars

\* an upload succeeded while the answer to a question about the previous
\* document was still awaited: the transcript holding that question is gone
C8_Witness ==
    /\ lastEvent.name = "uploadResponse"
    /\ ~Failed(lastEvent.arg)
    /\ isSending
    /\ chatMessages = <<>>
    /\ currentPage = 1
    /\ numPages = null

====
